---- MODULE Spec2Model ----
(***************************************************************************)
(* Model of src/rfid_dashboard_cloud.py: main() picks the data source, and *)
(* runs parse_uploaded_files (the CSV snapshot parser and tag-history       *)
(* builder) or parse_sample_data, then calculate_sequence_stats             *)
(* (per-sequence counts, dwell time and percentages).                       *)
(*                                                                         *)
(* Text is modelled character by character: a Python str is a sequence of  *)
(* one-character strings, so strip, split, replace, strptime and strftime  *)
(* are computed the way the interpreter computes them.  Python floats are  *)
(* IEEE 754 doubles: every division, addition and multiplication is        *)
(* rounded to the nearest double, ties to even.                            *)
(***************************************************************************)
EXTENDS Integers, Sequences, FiniteSets, TLC

VARIABLES
    uploaded_files,  \* what st.sidebar.file_uploader returned, in supplied order
    use_demo_data,   \* the check box of the sidebar
    regex_H,         \* the pattern the interpreter's strptime compiles %H to
    file_data,       \* the decoded files, after the sort by name
    idx,             \* 1-based position of the for loop over file_data
    dt,              \* the local variable dt: <<>> while unbound, else <<datetime>>
    all_data,        \* the list of event dicts
    tag_histories,   \* dict tag id -> list of history entries
    warnings,        \* the st.warning calls made so far, in order
    df,              \* calculate_sequence_stats: the frame after sort_values
    total_time,      \* calculate_sequence_stats: what sum() returned
    stats,           \* the dict calculate_sequence_stats returned
    pc               \* "main", "loop", "returned", "done"

vars == <<uploaded_files, use_demo_data, regex_H, file_data, idx, dt, all_data,
          tag_histories, warnings, df, total_time, stats, pc>>

----------------------------------------------------------------------------
(* Characters and strings *)

\* The characters used, in code point order (Python compares str by code point).
Chars == <<"\t", "\n", "\r", " ", ",", ".", "/",
           "0", "1", "2", "3", "4", "5", "6", "7", "8", "9", ":",
           "A", "B", "C", "a", "b", "c", "d", "e", "l", "m", "n", "o", "p",
           "s", "t", "v">>

Ord(c) == CHOOSE i \in 1..Len(Chars) : Chars[i] = c

Digits == <<"0", "1", "2", "3", "4", "5", "6", "7", "8", "9">>

DigitSet == {Digits[i] : i \in 1..10}

DigitVal(c) == (CHOOSE i \in 1..10 : Digits[i] = c) - 1

\* The white space str.strip() removes, among the characters used.
IsSpace(c) == c \in {" ", "\t", "\n", "\r"}

RECURSIVE LStrip(_)
LStrip(s) == IF s # <<>> /\ IsSpace(Head(s)) THEN LStrip(Tail(s)) ELSE s

RECURSIVE RStrip(_)
RStrip(s) ==
    IF s # <<>> /\ IsSpace(s[Len(s)]) THEN RStrip(SubSeq(s, 1, Len(s) - 1)) ELSE s

\* str.strip()
Strip(s) == RStrip(LStrip(s))

\* str.split(sep) for a one-character sep: always at least one field.
RECURSIVE Split(_, _)
Split(s, sep) ==
    IF \A i \in 1..Len(s) : s[i] # sep
    THEN <<s>>
    ELSE LET k == CHOOSE i \in 1..Len(s) :
                      s[i] = sep /\ \A j \in 1..(i - 1) : s[j] # sep
         IN  <<SubSeq(s, 1, k - 1)>> \o Split(SubSeq(s, k + 1, Len(s)), sep)

\* str.replace('\r', '')
RemoveCR(s) == SelectSeq(s, LAMBDA c : c # "\r")

\* a < b for Python str: the first differing code point decides, a proper
\* prefix is smaller.
RECURSIVE StrLess(_, _)
StrLess(a, b) ==
    IF b = <<>> THEN FALSE
    ELSE IF a = <<>> THEN TRUE
    ELSE IF Head(a) # Head(b) THEN Ord(Head(a)) < Ord(Head(b))
    ELSE StrLess(Tail(a), Tail(b))

\* int(s) for a string of digits, possibly with leading blanks (int(' 5') = 5).
RECURSIVE ToInt(_)
ToInt(s) ==
    IF s = <<>> THEN 0
    ELSE IF IsSpace(Head(s)) THEN ToInt(Tail(s))
    ELSE ToInt(SubSeq(s, 1, Len(s) - 1)) * 10 + DigitVal(s[Len(s)])

\* The decimal digits of n >= 0, zero-padded to at least w characters.
RECURSIVE Decimal(_, _)
Decimal(n, w) ==
    IF n < 10 /\ w <= 1 THEN <<Digits[n + 1]>>
    ELSE Decimal(n \div 10, w - 1) \o <<Digits[(n % 10) + 1]>>

----------------------------------------------------------------------------
(* datetime.strptime and strftime *)

D19 == DigitSet \ {"0"}

\* The pieces of the regular expression _strptime builds for a format: a
\* directive is a capturing group, a list of alternatives in the order the
\* regex tries them, each alternative a list of character classes; a literal
\* character of the format matches itself and captures nothing; white space
\* in the format becomes \s+, a run of one or more white space characters.
Directive(alts) == [capture |-> TRUE, plus |-> {}, alts |-> alts]

Literal(c) == [capture |-> FALSE, plus |-> {}, alts |-> << <<{c}>> >>]

WhiteSpace == [capture |-> FALSE, plus |-> {" ", "\t", "\n", "\r"}, alts |-> <<>>]

\* %Y  \d\d\d\d
RegexY == Directive(<< <<DigitSet, DigitSet, DigitSet, DigitSet>> >>)

\* %m  1[0-2]|0[1-9]|[1-9]
RegexM == Directive(<< <<{"1"}, {"0", "1", "2"}>>, <<{"0"}, D19>>, <<D19>> >>)

\* %d  3[0-1]|[1-2]\d|0[1-9]|[1-9]| [1-9]
RegexD == Directive(<< <<{"3"}, {"0", "1"}>>, <<{"1", "2"}, DigitSet>>, <<{"0"}, D19>>,
                       <<D19>>, <<{" "}, D19>> >>)

\* %H  2[0-3]|[0-1]\d|\d, as CPython compiles it up to 3.13.0
RegexHour == Directive(<< <<{"2"}, {"0", "1", "2", "3"}>>, <<{"0", "1"}, DigitSet>>,
                          <<DigitSet>> >>)

\* %H  2[0-3]|[0-1]\d|\d| \d, as later releases compile it: an hour may be
\* padded with a blank.
RegexHourBlank == Directive(<< <<{"2"}, {"0", "1", "2", "3"}>>, <<{"0", "1"}, DigitSet>>,
                               <<DigitSet>>, <<{" "}, DigitSet>> >>)

\* The pattern of %H depends on the interpreter the program runs on.
HourRegexes == {RegexHour, RegexHourBlank}

\* %M  [0-5]\d|\d
RegexMinute == Directive(<< <<{"0", "1", "2", "3", "4", "5"}, DigitSet>>, <<DigitSet>> >>)

\* %S  6[0-1]|[0-5]\d|\d
RegexSecond == Directive(<< <<{"6"}, {"0", "1"}>>,
                            <<{"0", "1", "2", "3", "4", "5"}, DigitSet>>, <<DigitSet>> >>)

\* '%Y%m%d%H%M%S', the format of a header timestamp
FormatRegex(H) == <<RegexY, RegexM, RegexD, H, RegexMinute, RegexSecond>>

\* '%Y/%m/%d %H:%M:%S', the format of a sample timestamp
SampleFormatRegex(H) ==
    <<RegexY, Literal("/"), RegexM, Literal("/"), RegexD, WhiteSpace,
      H, Literal(":"), RegexMinute, Literal(":"), RegexSecond>>

MatchAlt(s, p, alt) ==
    /\ p + Len(alt) - 1 <= Len(s)
    /\ \A k \in 1..Len(alt) : s[p + k - 1] \in alt[k]

RECURSIVE RunLength(_, _, _)
RunLength(s, p, class) ==
    IF p <= Len(s) /\ s[p] \in class THEN 1 + RunLength(s, p + 1, class) ELSE 0

\* A run of n characters of the class.
Run(class, n) == [j \in 1..n |-> class]

\* \s+ is greedy: the longest run at p first, then the shorter ones.
RunsFrom(class, longest) == [k \in 1..longest |-> Run(class, longest - k + 1)]

\* The alternatives of a piece at position p of s, in the order tried.
Alternatives(piece, s, p) ==
    IF piece.plus # {} THEN RunsFrom(piece.plus, RunLength(s, p, piece.plus))
    ELSE piece.alts

Captured(piece, here) == IF piece.capture THEN <<here>> ELSE <<>>

\* re.match: depth-first with backtracking, alternatives in order; the result
\* is the first way to match all pieces on a prefix of s.
RECURSIVE MatchGroup(_, _, _, _, _)
MatchGroup(regex, s, p, g, a) ==
    IF a > Len(Alternatives(regex[g], s, p))
    THEN [ok |-> FALSE, groups |-> <<>>, end |-> p]
    ELSE LET alt  == Alternatives(regex[g], s, p)[a]
             here == SubSeq(s, p, p + Len(alt) - 1)
             rest == IF g = Len(regex)
                     THEN [ok |-> TRUE, groups |-> <<>>, end |-> p + Len(alt)]
                     ELSE MatchGroup(regex, s, p + Len(alt), g + 1, 1)
         IN  IF MatchAlt(s, p, alt) /\ rest.ok
             THEN [ok |-> TRUE, groups |-> Captured(regex[g], here) \o rest.groups,
                   end |-> rest.end]
             ELSE MatchGroup(regex, s, p, g, a + 1)

IsLeap(y) == (y % 4 = 0) /\ ((y % 100 # 0) \/ (y % 400 = 0))

DaysInMonth(y, m) ==
    IF m = 2 THEN (IF IsLeap(y) THEN 29 ELSE 28)
    ELSE IF m \in {4, 6, 9, 11} THEN 30 ELSE 31

\* int() of the six groups of a match.
DateFields(groups) ==
    [year |-> ToInt(groups[1]), month |-> ToInt(groups[2]), day |-> ToInt(groups[3]),
     hour |-> ToInt(groups[4]), minute |-> ToInt(groups[5]), second |-> ToInt(groups[6])]

\* datetime(*fields): ValueError for year 0, a day the month does not have,
\* or second 60 and 61, which the regex lets through.
MakeDatetime(d) ==
    IF d.year < 1 \/ d.day > DaysInMonth(d.year, d.month) \/ d.second > 59
    THEN [ok |-> FALSE]
    ELSE [ok |-> TRUE, value |-> d]

\* The match must cover the whole string ("unconverted data remains").
FromMatch(found, length) ==
    IF ~found.ok \/ found.end # length + 1 THEN [ok |-> FALSE]
    ELSE MakeDatetime(DateFields(found.groups))

\* datetime.strptime(s, format) for the format whose regular expression is
\* regex: [ok |-> FALSE] stands for the ValueError it raises.
StrptimeWith(regex, s) == FromMatch(MatchGroup(regex, s, 1, 1, 1), Len(s))

\* datetime.strptime(s, '%Y%m%d%H%M%S') on an interpreter whose %H is H
Strptime(H, s) == StrptimeWith(FormatRegex(H), s)

\* dt.strftime('%Y/%m/%d %H:%M:%S') (glibc: %Y is not padded)
Strftime(d) ==
    Decimal(d.year, 1) \o <<"/">> \o Decimal(d.month, 2) \o <<"/">>
    \o Decimal(d.day, 2) \o <<" ">> \o Decimal(d.hour, 2) \o <<":">>
    \o Decimal(d.minute, 2) \o <<":">> \o Decimal(d.second, 2)

RECURSIVE DaysBeforeMonth(_, _)
DaysBeforeMonth(y, m) ==
    IF m = 1 THEN 0 ELSE DaysBeforeMonth(y, m - 1) + DaysInMonth(y, m - 1)

\* date.toordinal(): days since 0001-01-01, that day being 1.
ToOrdinal(d) ==
    LET y == d.year - 1
    IN  y * 365 + (y \div 4) - (y \div 100) + (y \div 400)
        + DaysBeforeMonth(d.year, d.month) + d.day

\* (a - b).total_seconds()
TotalSeconds(a, b) ==
    (ToOrdinal(a) - ToOrdinal(b)) * 86400
    + (a.hour - b.hour) * 3600 + (a.minute - b.minute) * 60 + (a.second - b.second)

----------------------------------------------------------------------------
(* Python floats: IEEE 754 binary64, every operation rounded to nearest, ties to even *)

\* A mantissa is kept in two limbs, hi * 2^28 + lo; a nonzero float is
\* (-1)^neg * (hi * 2^28 + lo) * 2^exp with 2^52 <= hi * 2^28 + lo < 2^53.
\* Exponents stay far from the subnormal and overflow ranges for minutes and percentages.
LimbBase == 2^28

Wide(hi, lo) == <<hi + lo \div LimbBase, lo % LimbBase>>

RECURSIVE BitLength(_)
BitLength(n) == IF n = 0 THEN 0 ELSE 1 + BitLength(n \div 2)

WideBits(w) == IF w[1] > 0 THEN 28 + BitLength(w[1]) ELSE BitLength(w[2])

WideLess(a, b) == a[1] < b[1] \/ (a[1] = b[1] /\ a[2] < b[2])

WideAdd(a, b) == Wide(a[1] + b[1], a[2] + b[2])

\* a - b for a >= b
WideSub(a, b) ==
    IF a[2] >= b[2] THEN <<a[1] - b[1], a[2] - b[2]>>
    ELSE <<a[1] - b[1] - 1, a[2] + LimbBase - b[2]>>

\* w * 2^k for k in 0..27
ShiftLeftStep(w, k) ==
    <<w[1] * 2^k + w[2] \div 2^(28 - k), (w[2] % 2^(28 - k)) * 2^k>>

RECURSIVE ShiftLeft(_, _)
ShiftLeft(w, k) ==
    IF k <= 27 THEN ShiftLeftStep(w, k) ELSE ShiftLeft(ShiftLeftStep(w, 27), k - 27)

\* floor(w / 2^k) for k in 0..27
ShiftRight(w, k) ==
    <<w[1] \div 2^k, (w[1] % 2^k) * 2^(28 - k) + w[2] \div 2^k>>

\* The lowest bit stands for every bit shifted out: it is set when any of them was.
Jam(w, lost) == IF lost /\ w[2] % 2 = 0 THEN <<w[1], w[2] + 1>> ELSE w

RECURSIVE ShiftRightJam(_, _)
ShiftRightJam(w, k) ==
    IF k <= 27 THEN Jam(ShiftRight(w, k), w[2] % 2^k # 0)
    ELSE ShiftRightJam(Jam(<<0, w[1]>>, w[2] # 0), k - 28)

FZero == [neg |-> FALSE, hi |-> 0, lo |-> 0, exp |-> 0]

MakeFloat(neg, m, e) == [neg |-> neg, hi |-> m[1], lo |-> m[2], exp |-> e]

Mantissa(x) == <<x.hi, x.lo>>

IsZero(x) == x.hi = 0

\* The mantissa after rounding up may have reached 2^53.
Carry(neg, m, e) ==
    IF m[1] = 2^25 THEN MakeFloat(neg, <<2^24, 0>>, e + 1) ELSE MakeFloat(neg, m, e)

RoundKept(neg, kept, rest, half, e) ==
    IF rest > half \/ (rest = half /\ kept[2] % 2 = 1)
    THEN Carry(neg, WideAdd(kept, <<0, 1>>), e)
    ELSE MakeFloat(neg, kept, e)

\* Drop the k lowest bits of w (0 < k < 28), rounding to nearest, ties to even.
RoundShift(neg, w, k, e) ==
    RoundKept(neg, ShiftRight(w, k), w[2] % 2^k, 2^(k - 1), e + k)

RoundBits(neg, w, n, e) ==
    IF n = 0 THEN FZero
    ELSE IF n <= 53 THEN MakeFloat(neg, ShiftLeft(w, 53 - n), e - (53 - n))
    ELSE RoundShift(neg, w, n - 53, e)

\* The float nearest to (-1)^neg * w * 2^e.
Round(neg, w, e) == RoundBits(neg, w, WideBits(w), e)

\* float(n)
FromInt(n) == Round(n < 0, Wide(0, IF n < 0 THEN -n ELSE n), 0)

Negate(x) == IF IsZero(x) THEN x ELSE [x EXCEPT !.neg = ~x.neg]

\* a + b and a - b on aligned mantissas with three guard bits.
AddAligned(xneg, a, yneg, b, e) ==
    IF xneg = yneg THEN Round(xneg, WideAdd(a, b), e)
    ELSE IF WideLess(a, b) THEN Round(yneg, WideSub(b, a), e)
    ELSE Round(xneg, WideSub(a, b), e)

\* x + y for x.exp >= y.exp, both nonzero
AddOrdered(x, y) ==
    AddAligned(x.neg, ShiftLeftStep(Mantissa(x), 3),
               y.neg, ShiftRightJam(ShiftLeftStep(Mantissa(y), 3), x.exp - y.exp),
               x.exp - 3)

\* x + y
FAdd(x, y) ==
    IF IsZero(x) THEN y
    ELSE IF IsZero(y) THEN x
    ELSE IF x.exp >= y.exp THEN AddOrdered(x, y)
    ELSE AddOrdered(y, x)

\* Long division, one bit a step, until the quotient q has 55 bits; the lowest
\* bit is then set when a remainder is left.
RECURSIVE LongDivide(_, _, _)
LongDivide(r, d, q) ==
    IF q[1] >= 2^26 THEN Jam(q, r # <<0, 0>>)
    ELSE IF WideLess(WideAdd(r, r), d)
         THEN LongDivide(WideAdd(r, r), d, WideAdd(q, q))
         ELSE LongDivide(WideSub(WideAdd(r, r), d), d, WideAdd(WideAdd(q, q), <<0, 1>>))

\* floor(a * 2^54 / b) for mantissas a >= b, floor(a * 2^55 / b) for a < b
Quotient(a, b) ==
    IF WideLess(a, b) THEN LongDivide(a, b, <<0, 0>>)
    ELSE LongDivide(WideSub(a, b), b, <<0, 1>>)

QuotientExp(x, y) ==
    x.exp - y.exp - (IF WideLess(Mantissa(x), Mantissa(y)) THEN 55 ELSE 54)

\* A divisor of at most 15 significant bits (a small whole number, or one
\* times a power of two): its mantissa is ShortDivisor(y) * 2^38.
IsShort(y) == y.lo = 0 /\ y.hi % 2^10 = 0

ShortDivisor(y) == y.hi \div 2^10

\* a * 2^17, 14 bits a piece from the highest down
Pieces(a) ==
    <<a[1] \div 2^11, (a[1] % 2^11) * 8 + a[2] \div 2^25, (a[2] \div 2^11) % 2^14,
      (a[2] % 2^11) * 8, 0>>

\* Long division by a short divisor, 14 bits a step: n is the remainder so
\* far with the next piece brought down.
RECURSIVE DivideShort(_, _, _, _, _)
DivideShort(n, d, q, ps, k) ==
    IF k = Len(ps) THEN Jam(WideAdd(ShiftLeftStep(q, 14), <<0, n \div d>>), n % d # 0)
    ELSE DivideShort((n % d) * 2^14 + ps[k + 1], d,
                     WideAdd(ShiftLeftStep(q, 14), <<0, n \div d>>), ps, k + 1)

\* floor(a * 2^17 / d), the lowest bit set when a remainder is left
QuotientShort(a, d) == DivideShort(Pieces(a)[1], d, <<0, 0>>, Pieces(a), 1)

\* x / y for y nonzero: the quotient of the mantissas to 55 bits or more and
\* a bit for the remainder, rounded to 53.
FDiv(x, y) ==
    IF IsZero(x) THEN FZero
    ELSE IF IsShort(y)
    THEN Round(x.neg # y.neg, QuotientShort(Mantissa(x), ShortDivisor(y)),
               x.exp - y.exp - 55)
    ELSE Round(x.neg # y.neg, Quotient(Mantissa(x), Mantissa(y)), QuotientExp(x, y))

\* x * 100: 100 = 25 * 2^2 and 25 w = 16 w + 8 w + w
Times25(w) == WideAdd(WideAdd(ShiftLeftStep(w, 4), ShiftLeftStep(w, 3)), w)

Times100(x) == IF IsZero(x) THEN x ELSE Round(x.neg, Times25(Mantissa(x)), x.exp + 2)

\* x < y
FLess(x, y) == FAdd(x, Negate(y)).neg

----------------------------------------------------------------------------
(* Python dicts, as lists of [key, value] items in insertion order *)

HasKey(d, k) == \E i \in 1..Len(d) : d[i].key = k

Get(d, k) == d[CHOOSE i \in 1..Len(d) : d[i].key = k].value

Keys(d) == {d[i].key : i \in 1..Len(d)}

\* d[k] = v
SetItem(d, k, v) ==
    IF HasKey(d, k)
    THEN [i \in 1..Len(d) |-> IF d[i].key = k THEN [key |-> k, value |-> v] ELSE d[i]]
    ELSE Append(d, [key |-> k, value |-> v])

\* d1 == d2: the same keys with the same values, whatever the insertion order.
DictEq(d1, d2) == {d1[i] : i \in 1..Len(d1)} = {d2[i] : i \in 1..Len(d2)}

----------------------------------------------------------------------------
(* parse_uploaded_files *)

\* The stable insertion of x into a list sorted by name: after every element
\* whose name is not greater (list.sort keeps equal keys in their given order).
RECURSIVE InsertByName(_, _)
InsertByName(sorted, x) ==
    IF sorted = <<>> THEN <<x>>
    ELSE IF StrLess(x.name, Head(sorted).name) THEN <<x>> \o sorted
    ELSE <<Head(sorted)>> \o InsertByName(Tail(sorted), x)

RECURSIVE SortByNameFrom(_, _)
SortByNameFrom(sorted, files) ==
    IF files = <<>> THEN sorted
    ELSE SortByNameFrom(InsertByName(sorted, Head(files)), Tail(files))

\* A sort that is skipped: the files stay in the order supplied.
SortByNameOmitted(files) == files

\* file_data.sort(key=lambda x: x['name'])
SortByName(files) == SortByNameFrom(<<>>, files)

\* len(headers) < 4
HeaderTooShort(headers) == Len(headers) < 4

HistoryEntry(formatted_time, d, sequence, filename) ==
    [timestamp |-> formatted_time, datetime |-> d, sequence |-> sequence,
     filename |-> filename]

\* A history that keeps only the latest entry of a tag.
AppendHistoryOverwrite(histories, tag_id, entry) ==
    SetItem(histories, tag_id, <<entry>>)

\* tag_histories[tag_id].append(entry)
AppendHistory(histories, tag_id, entry) ==
    SetItem(histories, tag_id, Append(Get(histories, tag_id), entry))

\* Lines 60-71, for a row that carries the tag tag_id.  histories already has
\* the key.  acc.raised is set when evaluating dt raised UnboundLocalError.
RecordTag(acc, histories, tag_id, formatted_time, cur_dt, sequence, filename) ==
    IF cur_dt = <<>>
    THEN [tag_ids |-> Append(acc.tag_ids, tag_id), tag_histories |-> histories,
          raised |-> TRUE]
    ELSE [tag_ids |-> Append(acc.tag_ids, tag_id),
          tag_histories |->
              AppendHistory(histories, tag_id,
                            HistoryEntry(formatted_time, cur_dt[1], sequence, filename)),
          raised |-> FALSE]

\* if tag_id not in tag_histories: tag_histories[tag_id] = []
WithKey(histories, tag_id) ==
    IF HasKey(histories, tag_id) THEN histories ELSE SetItem(histories, tag_id, <<>>)

\* Lines 58-59: columns = row.split(','); if len(columns) > 4 and columns[4]
ScanColumns(acc, columns, formatted_time, cur_dt, sequence, filename) ==
    IF ~(Len(columns) > 4 /\ columns[5] # <<>>) THEN acc
    ELSE RecordTag(acc, WithKey(acc.tag_histories, RemoveCR(columns[5])),
                   RemoveCR(columns[5]), formatted_time, cur_dt, sequence, filename)

\* One pass of the row loop; after the exception no row is looked at.
ScanRow(acc, row, formatted_time, cur_dt, sequence, filename) ==
    IF acc.raised \/ Strip(row) = <<>> THEN acc
    ELSE ScanColumns(acc, Split(row, ","), formatted_time, cur_dt, sequence, filename)

RECURSIVE ScanRows(_, _, _, _, _, _)
ScanRows(acc, rows, formatted_time, cur_dt, sequence, filename) ==
    IF rows = <<>> THEN acc
    ELSE ScanRows(ScanRow(acc, Head(rows), formatted_time, cur_dt, sequence, filename),
                  Tail(rows), formatted_time, cur_dt, sequence, filename)

Event(filename, formatted_time, d, sequence, tag_ids, timestamp) ==
    [filename |-> filename, timestamp |-> formatted_time, datetime |-> d,
     sequence |-> sequence, tag_count |-> Len(tag_ids), tag_ids |-> tag_ids,
     raw_timestamp |-> timestamp]

Warning(filename, error) == [filename |-> filename, error |-> error]

\* Lines 73-85 after the row loop: the event is appended, unless evaluating
\* dt raised (in the row loop, or here when no row carried a tag).
Finish(st, scan, filename, formatted_time, cur_dt, sequence, timestamp) ==
    IF scan.raised \/ cur_dt = <<>>
    THEN [kind |-> "error", all_data |-> st.all_data,
          tag_histories |-> scan.tag_histories,
          warnings |-> Append(st.warnings, Warning(filename, "UnboundLocalError")),
          dt |-> cur_dt]
    ELSE [kind |-> "event",
          all_data |-> Append(st.all_data,
                              Event(filename, formatted_time, cur_dt[1], sequence,
                                    scan.tag_ids, timestamp)),
          tag_histories |-> scan.tag_histories,
          warnings |-> st.warnings,
          dt |-> cur_dt]

\* Lines 54-81, with formatted_time and dt as lines 48-52 left them.
ScanAndFinish(st, filename, data_rows, formatted_time, cur_dt, sequence, timestamp) ==
    Finish(st,
           ScanRows([tag_ids |-> <<>>, tag_histories |-> st.tag_histories,
                     raised |-> FALSE],
                    data_rows, formatted_time, cur_dt, sequence, filename),
           filename, formatted_time, cur_dt, sequence, timestamp)

\* Lines 48-52: on ValueError formatted_time is the raw string and dt keeps
\* whatever it held (nothing, for the first file that gets here).
FormatTime(st, filename, data_rows, parsed, sequence, timestamp) ==
    IF parsed.ok
    THEN ScanAndFinish(st, filename, data_rows, Strftime(parsed.value),
                       <<parsed.value>>, sequence, timestamp)
    ELSE ScanAndFinish(st, filename, data_rows, timestamp, st.dt, sequence, timestamp)

\* Lines 40-45.  headers[3] raises IndexError for a header of fewer than four
\* fields that the test before it let through.
ProcessHeader(H, st, filename, headers, data_rows) ==
    IF HeaderTooShort(headers) THEN [st EXCEPT !.kind = "short"]
    ELSE IF Len(headers) < 4
    THEN [st EXCEPT !.kind = "error",
                    !.warnings = Append(@, Warning(filename, "IndexError"))]
    ELSE FormatTime(st, filename, data_rows, Strptime(H, headers[1]), headers[4],
                    headers[1])

\* Lines 37-38: lines = content.split('\n'); headers = lines[0].split(',')
ProcessLines(H, st, filename, lines) ==
    ProcessHeader(H, st, filename, Split(lines[1], ","), Tail(lines))

\* Lines 34-35: if not content: continue
ProcessContent(H, st, filename, content) ==
    IF content = <<>> THEN [st EXCEPT !.kind = "empty"]
    ELSE ProcessLines(H, st, filename, Split(content, "\n"))

\* The body of the for loop for one file.  st holds all_data, tag_histories,
\* warnings and dt before the iteration; the result holds them after it, and
\* how the iteration ended: "empty" and "short" are the two continue
\* statements, "event" the append to all_data, "error" the except clause.
ProcessFile(H, st, file_info) ==
    ProcessContent(H, st, file_info.name, Strip(file_info.content))

EmptyState == [kind |-> "start", all_data |-> <<>>, tag_histories |-> <<>>,
               warnings |-> <<>>, dt |-> <<>>]

RECURSIVE ProcessFiles(_, _, _)
ProcessFiles(H, st, files) ==
    IF files = <<>> THEN st
    ELSE ProcessFiles(H, ProcessFile(H, st, Head(files)), Tail(files))

\* parse_uploaded_files(uploaded_files), start to return.
ParseUploadedFiles(H, files) == ProcessFiles(H, EmptyState, SortByName(files))

----------------------------------------------------------------------------
(* parse_sample_data *)

SampleTag1 ==
    <<"A", "0", "2", "5", "0", "2", "1", "2", "1", "5", "4", "4", "0", "0",
      "3", "4", "3", "0", "3", "2", "3", "5", "3", "0", "3", "1", "3", "0",
      "3", "3", "3", "0">>

SampleTag2 ==
    <<"A", "0", "2", "5", "0", "2", "1", "3", "1", "0", "4", "3", "2", "7",
      "0", "0", "3", "2", "3", "0", "3", "2", "3", "5", "3", "0", "3", "2",
      "3", "1", "3", "0", "3", "0", "3", "6", "3", "0", "3", "1">>

SampleTag3 ==
    <<"A", "0", "2", "5", "0", "2", "1", "2", "1", "5", "3", "6", "3", "3",
      "3", "4", "3", "0", "3", "2", "3", "5", "3", "0", "3", "1", "3", "0",
      "3", "2", "3", "6">>

\* Lines 91-97: the list literal
sample_data == <<
    [filename |-> <<"s", "a", "m", "p", "l", "e", "1", ".", "c", "s", "v">>,
     timestamp |-> <<"2", "0", "2", "5", "/", "0", "2", "/", "1", "8", " ", "0", "7", ":",
                    "4", "4", ":", "0", "6">>,
     sequence |-> <<"0", "0">>, tag_count |-> 0,
     tag_ids |-> <<>>],
    [filename |-> <<"s", "a", "m", "p", "l", "e", "2", ".", "c", "s", "v">>,
     timestamp |-> <<"2", "0", "2", "5", "/", "0", "2", "/", "1", "8", " ", "0", "8", ":",
                    "0", "5", ":", "0", "1">>,
     sequence |-> <<"0", "1">>, tag_count |-> 0,
     tag_ids |-> <<>>],
    [filename |-> <<"s", "a", "m", "p", "l", "e", "3", ".", "c", "s", "v">>,
     timestamp |-> <<"2", "0", "2", "5", "/", "0", "2", "/", "1", "8", " ", "0", "8", ":",
                    "0", "5", ":", "3", "4">>,
     sequence |-> <<"0", "2">>, tag_count |-> 1,
     tag_ids |-> <<SampleTag1>>],
    [filename |-> <<"s", "a", "m", "p", "l", "e", "4", ".", "c", "s", "v">>,
     timestamp |-> <<"2", "0", "2", "5", "/", "0", "2", "/", "1", "8", " ", "0", "8", ":",
                    "0", "5", ":", "4", "3">>,
     sequence |-> <<"0", "3">>, tag_count |-> 2,
     tag_ids |-> <<SampleTag1, SampleTag2>>],
    [filename |-> <<"s", "a", "m", "p", "l", "e", "5", ".", "c", "s", "v">>,
     timestamp |-> <<"2", "0", "2", "5", "/", "0", "2", "/", "1", "8", " ", "0", "8", ":",
                    "0", "5", ":", "4", "8">>,
     sequence |-> <<"0", "4">>, tag_count |-> 3,
     tag_ids |-> <<SampleTag3, SampleTag1, SampleTag2>>]
>>

\* data['datetime'] = dt
WithDatetime(data, d) ==
    [filename |-> data.filename, timestamp |-> data.timestamp,
     sequence |-> data.sequence, tag_count |-> data.tag_count,
     tag_ids |-> data.tag_ids, datetime |-> d]

\* Lines 104-112: the loop over data['tag_ids']
RECURSIVE SampleTags(_, _, _)
SampleTags(histories, tag_ids, entry) ==
    IF tag_ids = <<>> THEN histories
    ELSE SampleTags(AppendHistory(WithKey(histories, Head(tag_ids)), Head(tag_ids), entry),
                    Tail(tag_ids), entry)

\* Lines 101-112 for one item, d being what strptime returned.
SampleItem(st, data, d) ==
    [all_data |-> Append(st.all_data, WithDatetime(data, d)),
     tag_histories |->
         SampleTags(st.tag_histories, data.tag_ids,
                    HistoryEntry(data.timestamp, d, data.sequence, data.filename))]

RECURSIVE SampleLoop(_, _, _)
SampleLoop(H, st, items) ==
    IF items = <<>> THEN st
    ELSE SampleLoop(H,
                    SampleItem(st, Head(items),
                               StrptimeWith(SampleFormatRegex(H),
                                            Head(items).timestamp).value),
                    Tail(items))

\* parse_sample_data(), start to return.
ParseSampleData(H) ==
    SampleLoop(H, [all_data |-> <<>>, tag_histories |-> <<>>], sample_data)

----------------------------------------------------------------------------
(* calculate_sequence_stats *)

\* for seq in ['00', '01', '02', '03', '04']
StateCodes == << <<"0", "0">>, <<"0", "1">>, <<"0", "2">>, <<"0", "3">>, <<"0", "4">> >>

Injections(n) == {p \in [1..n -> 1..n] : \A i, j \in 1..n : p[i] = p[j] => i = j}

Reorder(data, p) == [i \in 1..Len(data) |-> data[p[i]]]

Ascending(rows) ==
    \A i \in 1..(Len(rows) - 1) : TotalSeconds(rows[i + 1].datetime, rows[i].datetime) >= 0

\* A frame left in the order of the list it was built from.
SortValuesOmitted(data) == {data}

\* df.sort_values('datetime'): the default sort kind is not stable, so rows
\* with equal datetimes may come out in any order.
SortValues(data) ==
    {rows \in {Reorder(data, p) : p \in Injections(Len(data))} : Ascending(rows)}

\* A count that leaves the last row out, as the duration loop does.
CountRowsBeforeLast(rows, seq) ==
    Cardinality({i \in 1..(Len(rows) - 1) : rows[i].sequence = seq})

\* len(df[df['sequence'] == seq])
CountRows(rows, seq) == Cardinality({i \in 1..Len(rows) : rows[i].sequence = seq})

\* df.iloc[i]['sequence'] == seq and i < len(df) - 1     (i is 1-based here)
AddsDuration(rows, i, seq) == rows[i].sequence = seq /\ i < Len(rows)

\* A gap left in seconds, the division by 60 forgotten.
DurationInSeconds(rows, i) ==
    FromInt(TotalSeconds(rows[i + 1].datetime, rows[i].datetime))

\* (df.iloc[i+1]['datetime'] - df.iloc[i]['datetime']).total_seconds() / 60
\* total_seconds() is a whole number of seconds, which a double holds exactly.
Duration(rows, i) ==
    FDiv(FromInt(TotalSeconds(rows[i + 1].datetime, rows[i].datetime)), FromInt(60))

\* Lines 144-147: total_duration += duration, row after row from i on.
RECURSIVE SumDurations(_, _, _, _)
SumDurations(rows, seq, i, total_duration) ==
    IF i > Len(rows) THEN total_duration
    ELSE SumDurations(rows, seq, i + 1,
                      IF AddsDuration(rows, i, seq)
                      THEN FAdd(total_duration, Duration(rows, i))
                      ELSE total_duration)

\* Lines 142-147: total_duration = 0; if count > 0: the loop
TotalDuration(rows, seq) ==
    IF CountRows(rows, seq) > 0 THEN SumDurations(rows, seq, 1, FZero) ELSE FZero

\* Lines 149-154: stats[seq], before time_percentage is added.
MakeStats(count, total_duration, n) ==
    [count |-> count,
     percentage |-> IF n > 0 THEN Times100(FDiv(FromInt(count), FromInt(n))) ELSE FZero,
     total_duration |-> total_duration,
     avg_duration |-> IF count > 0 THEN FDiv(total_duration, FromInt(count)) ELSE FZero]

StateStats(rows, seq) == MakeStats(CountRows(rows, seq), TotalDuration(rows, seq), Len(rows))

\* Lines 135-154: the dict after the loop over the five codes.
FirstLoop(rows) ==
    [k \in 1..Len(StateCodes) |->
        [key |-> StateCodes[k], value |-> StateStats(rows, StateCodes[k])]]

\* stat['total_duration'] for stat in stats.values()
TotalDurations(d) == [k \in 1..Len(d) |-> d[k].value.total_duration]

\* sum() up to CPython 3.11: from 0, in the order given, each addition rounded.
RECURSIVE SumPlain(_, _, _)
SumPlain(xs, k, total) ==
    IF k > Len(xs) THEN total ELSE SumPlain(xs, k + 1, FAdd(total, xs[k]))

FAbs(x) == [x EXCEPT !.neg = FALSE]

FSub(x, y) == FAdd(x, Negate(y))

\* c += (f_result - t) + x or c += (x - t) + f_result, for t = f_result + x
Compensation(f_result, x, t, c) ==
    IF ~FLess(FAbs(f_result), FAbs(x))
    THEN FAdd(c, FAdd(FSub(f_result, t), x))
    ELSE FAdd(c, FAdd(FSub(x, t), f_result))

\* sum() from CPython 3.12 on: the rounding errors of the additions are kept
\* in c (Neumaier) and added at the end.
RECURSIVE SumCompensated(_, _, _, _)
SumCompensated(xs, k, f_result, c) ==
    IF k > Len(xs) THEN (IF IsZero(c) THEN f_result ELSE FAdd(f_result, c))
    ELSE SumCompensated(xs, k + 1, FAdd(f_result, xs[k]),
                        Compensation(f_result, xs[k], FAdd(f_result, xs[k]), c))

\* Line 157: sum(...), as either interpreter computes it.
BuiltinSum(xs) == {SumPlain(xs, 1, FZero), SumCompensated(xs, 1, FZero, FZero)}

\* Line 159
TimePercentage(total_duration, total_time_) ==
    IF FLess(FZero, total_time_) THEN Times100(FDiv(total_duration, total_time_))
    ELSE FZero

WithTimePercentage(v, total_time_) ==
    [count |-> v.count, percentage |-> v.percentage, total_duration |-> v.total_duration,
     avg_duration |-> v.avg_duration,
     time_percentage |-> TimePercentage(v.total_duration, total_time_)]

\* Lines 158-159: the loop that adds time_percentage to every entry.
SecondLoop(d, total_time_) ==
    [k \in 1..Len(d) |->
        [key |-> d[k].key, value |-> WithTimePercentage(d[k].value, total_time_)]]

\* Lines 156-161 for the dict d of the first loop: total_time and the dict
\* returned, for each value sum() can return.
Returned(d) ==
    {[total_time |-> t, stats |-> SecondLoop(d, t)] : t \in BuiltinSum(TotalDurations(d))}

\* calculate_sequence_stats for a frame already sorted: {} for no data.
CalculateSequenceStats(rows) ==
    IF rows = <<>> THEN {[total_time |-> FZero, stats |-> <<>>]}
    ELSE Returned(FirstLoop(rows))

----------------------------------------------------------------------------
(* The uploads the model is run on *)

MaxFiles == 3

NameA10 == <<"a", "1", "0">>
NameA9  == <<"a", "9">>

Ts080524 == <<"2", "0", "2", "5", "0", "2", "1", "8", "0", "8", "0", "5", "2", "4">>
Ts080528 == <<"2", "0", "2", "5", "0", "2", "1", "8", "0", "8", "0", "5", "2", "8">>
Ts080534 == <<"2", "0", "2", "5", "0", "2", "1", "8", "0", "8", "0", "5", "3", "4">>
Ts080546 == <<"2", "0", "2", "5", "0", "2", "1", "8", "0", "8", "0", "5", "4", "6">>
Ts_80540 == <<"2", "0", "2", "5", "0", "2", "1", "8", " ", "8", "0", "5", "4", "0">>
TsBad    == <<"n", "o", "t", "a", "d", "a", "t", "e">>

TagA == <<"A", "0", "2", "5">>
TagB == <<"B", "1">>

RECURSIVE Join(_, _)
Join(parts, sep) ==
    IF Len(parts) = 1 THEN parts[1] ELSE parts[1] \o sep \o Join(Tail(parts), sep)

Line(fields) == Join(fields, <<",">>)

F0001 == <<"0", "0", "0", "1">>
F6C   == <<"6", "C">>

Row(ts, seq, tag) == Line(<<ts, F0001, F6C, seq, tag>>)

\* Only white space.
BlankContent == <<" ", "\n">>

\* Three header fields, and a row that carries a tag.
ShortHeaderContent ==
    Join(<<Line(<<Ts080534, F0001, F6C>>), Row(Ts080534, StateCodes[1], TagA)>>,
         <<"\n">>)

\* One line: state 00 at 08:05:34 (a tag on the first line is not a data row).
IdleContent == Row(Ts080534, StateCodes[1], TagA) \o <<"\n">>

\* CRLF lines: state 03 at 08:05:46 with tags A and B in the data rows.
RunningContent ==
    Join(<<Row(Ts080546, StateCodes[4], TagA), Row(Ts080546, StateCodes[4], TagA),
           Row(Ts080546, StateCodes[4], TagB)>>, <<"\r", "\n">>)

\* A timestamp strptime rejects: state 02, tag A in the data row.
BadTimeContent ==
    Join(<<Row(TsBad, StateCodes[3], TagA), Row(TsBad, StateCodes[3], TagA)>>, <<"\n">>)

\* An hour padded with a blank, which only the later pattern of %H accepts:
\* state 04 at 08:05:40, tag A in the data row.
BlankHourContent ==
    Join(<<Row(Ts_80540, StateCodes[5], TagA), Row(Ts_80540, StateCodes[5], TagA)>>, <<"\n">>)

\* State 05, which is none of the five, at 08:05:24.
UnknownStateContent == Line(<<Ts080524, F0001, F6C, <<"0", "5">> >>)

\* One line without a tag: state 01 at 08:05:28, 6 s before IdleContent and
\* 18 s before RunningContent (0.1 and 0.2 minutes do not add up to 0.3).
InitContent == Line(<<Ts080528, F0001, F6C, StateCodes[2]>>)

Files ==
    {[name |-> NameA10, content |-> c] :
        c \in {BlankContent, ShortHeaderContent, IdleContent, RunningContent,
               BadTimeContent, BlankHourContent}}
    \cup {[name |-> NameA9, content |-> c] :
            c \in {RunningContent, InitContent, UnknownStateContent}}

----------------------------------------------------------------------------
(* The run of main(): pick the data source, parse, compute the statistics *)

\* Lines 178-186: the uploads, each file taken as the text
\* read().decode('utf-8') returns, and the check box, ticked or not; the
\* interpreter the program runs on fixes how strptime reads %H.
Init ==
    /\ uploaded_files \in UNION {[1..n -> Files] : n \in 0..MaxFiles}
    /\ use_demo_data \in BOOLEAN
    /\ regex_H \in HourRegexes
    /\ file_data = <<>>
    /\ idx = 1
    /\ dt = <<>>
    /\ all_data = <<>>
    /\ tag_histories = <<>>
    /\ warnings = <<>>
    /\ df = <<>>
    /\ total_time = FZero
    /\ stats = <<>>
    /\ pc = "main"

\* Line 189 and lines 18-27: with uploads, read every file and sort by name.
SortFiles ==
    /\ pc = "main"
    /\ uploaded_files # <<>>
    /\ file_data' = SortByName(uploaded_files)
    /\ pc' = "loop"
    /\ UNCHANGED <<uploaded_files, use_demo_data, regex_H, idx, dt, all_data,
                   tag_histories, warnings, df, total_time, stats>>

\* Lines 193-195: no upload and the box ticked: data, tag_histories = parse_sample_data()
UseDemoData ==
    /\ pc = "main"
    /\ uploaded_files = <<>>
    /\ use_demo_data
    /\ all_data' = ParseSampleData(regex_H).all_data
    /\ tag_histories' = ParseSampleData(regex_H).tag_histories
    /\ pc' = "returned"
    /\ UNCHANGED <<uploaded_files, use_demo_data, regex_H, file_data, idx, dt,
                   warnings, df, total_time, stats>>

\* Lines 196-219: neither: the instructions are shown and main returns.
ShowUsage ==
    /\ pc = "main"
    /\ uploaded_files = <<>>
    /\ ~use_demo_data
    /\ pc' = "done"
    /\ UNCHANGED <<uploaded_files, use_demo_data, regex_H, file_data, idx, dt,
                   all_data, tag_histories, warnings, df, total_time, stats>>

LoopState == [kind |-> "start", all_data |-> all_data, tag_histories |-> tag_histories,
              warnings |-> warnings, dt |-> dt]

Assign(r) ==
    /\ all_data' = r.all_data
    /\ tag_histories' = r.tag_histories
    /\ warnings' = r.warnings
    /\ dt' = r.dt

\* One iteration of the for loop that ends the way `kind` says.
Iterate(kind, r) ==
    /\ pc = "loop"
    /\ idx <= Len(file_data)
    /\ r.kind = kind
    /\ Assign(r)
    /\ idx' = idx + 1
    /\ UNCHANGED <<uploaded_files, use_demo_data, regex_H, file_data, df, total_time,
                   stats, pc>>

ThisIteration == ProcessFile(regex_H, LoopState, file_data[idx])

\* Lines 34-35: if not content: continue
SkipEmptyFile == Iterate("empty", ThisIteration)

\* Lines 40-41: if len(headers) < 4: continue
SkipShortHeader == Iterate("short", ThisIteration)

\* Lines 43-81: the event is appended.
AppendEvent == Iterate("event", ThisIteration)

\* Lines 83-85: except Exception: st.warning(...); continue
WarnOnError == Iterate("error", ThisIteration)

\* Line 87: return all_data, tag_histories
ReturnParsed ==
    /\ pc = "loop"
    /\ idx > Len(file_data)
    /\ pc' = "returned"
    /\ UNCHANGED <<uploaded_files, use_demo_data, regex_H, file_data, idx, dt,
                   all_data, tag_histories, warnings, df, total_time, stats>>

\* main, lines 221-223: no data, nothing is computed.
ShowNoData ==
    /\ pc = "returned"
    /\ all_data = <<>>
    /\ pc' = "done"
    /\ UNCHANGED <<uploaded_files, use_demo_data, regex_H, file_data, idx, dt,
                   all_data, tag_histories, warnings, df, total_time, stats>>

\* main, line 257: seq_stats = calculate_sequence_stats(data)
CalculateStats ==
    /\ pc = "returned"
    /\ all_data # <<>>
    /\ \E rows \in SortValues(all_data) :
          \E r \in CalculateSequenceStats(rows) :
              /\ df' = rows
              /\ total_time' = r.total_time
              /\ stats' = r.stats
    /\ pc' = "done"
    /\ UNCHANGED <<uploaded_files, use_demo_data, regex_H, file_data, idx, dt,
                   all_data, tag_histories, warnings>>

Next ==
    \/ SortFiles
    \/ UseDemoData
    \/ ShowUsage
    \/ SkipEmptyFile
    \/ SkipShortHeader
    \/ AppendEvent
    \/ WarnOnError
    \/ ReturnParsed
    \/ ShowNoData
    \/ CalculateStats

Spec == Init /\ [][Next]_vars

----------------------------------------------------------------------------
(* Vocabulary of the properties *)

Range(q) == {q[i] : i \in 1..Len(q)}

\* The first line of a file's stripped content, split at the commas.
HeaderFields(f) == Split(Split(Strip(f.content), "\n")[1], ",")

IsBlank(f) == Strip(f.content) = <<>>

HasShortHeader(f) == ~IsBlank(f) /\ Len(HeaderFields(f)) < 4

\* Non-empty once stripped, and at least four fields on the first line.
IsWellFormed(f) == ~IsBlank(f) /\ Len(HeaderFields(f)) >= 4

Unparseable(timestamp) == ~Strptime(regex_H, timestamp).ok

IsDatetime(d) == DOMAIN d = {"year", "month", "day", "hour", "minute", "second"}

DistinctNames(files) ==
    \A i, j \in 1..Len(files) : files[i].name = files[j].name => i = j

Matches(h, e) ==
    h.timestamp = e.timestamp /\ h.sequence = e.sequence /\ h.filename = e.filename

GapSeconds(rows, i) == TotalSeconds(rows[i + 1].datetime, rows[i].datetime)

\* A whole number of seconds, in minutes: the double nearest to seconds / 60.
Minutes(seconds) == FDiv(FromInt(seconds), FromInt(60))

\* The minutes between each row of state seq, from row i on, and the row
\* after it, added to total in the order of the rows.
RECURSIVE PairMinutes(_, _, _, _)
PairMinutes(rows, seq, i, total) ==
    IF i >= Len(rows) THEN total
    ELSE PairMinutes(rows, seq, i + 1,
                     IF rows[i].sequence = seq
                     THEN FAdd(total, Minutes(GapSeconds(rows, i)))
                     ELSE total)

\* The seconds between the earliest and the latest datetime of the list.
SpanSeconds(rows) ==
    CHOOSE d \in {TotalSeconds(rows[i].datetime, rows[j].datetime) :
                      i, j \in 1..Len(rows)} :
        \A i, j \in 1..Len(rows) : TotalSeconds(rows[i].datetime, rows[j].datetime) <= d

\* The values of one field of the five entries, added from 0 in the order of
\* the dict.
RECURSIVE SumField(_, _, _, _)
SumField(d, field, k, total) ==
    IF k > Len(d) THEN total ELSE SumField(d, field, k + 1, FAdd(total, d[k].value[field]))

RECURSIVE SumCounts(_, _)
SumCounts(d, k) == IF k > Len(d) THEN 0 ELSE d[k].value.count + SumCounts(d, k + 1)

\* 2^(Magnitude(x) - 1) <= |x| < 2^Magnitude(x) for a nonzero x
Magnitude(x) == x.exp + 53

\* x and y are equal, or differ by less than 2^-50 of |y|: by the rounding
\* of a few operations, and no more.
WithinRounding(x, y) ==
    \/ x = y
    \/ /\ ~IsZero(y)
       /\ Magnitude(FAdd(x, Negate(y))) <= Magnitude(y) - 51

KnownEvents(rows) == {i \in 1..Len(rows) : rows[i].sequence \in Range(StateCodes)}

AllKnown(rows) == KnownEvents(rows) = 1..Len(rows)

\* parse_uploaded_files has returned.
Parsed == uploaded_files # <<>> /\ pc \in {"returned", "done"}

\* calculate_sequence_stats has returned, for the uploads or the sample data.
Computed == pc = "done" /\ all_data # <<>>

PercentageSum == SumField(stats, "percentage", 1, FZero)

----------------------------------------------------------------------------
(* Properties *)

\* C1: every file whose stripped content is non-empty and whose first line has
\* at least 4 fields yields exactly one event, also when its header timestamp
\* does not parse and wherever it sits in the batch; an event with such a
\* timestamp shows the raw string and carries no parsed time value.
C1_WellFormedFileYieldsEvent ==
    Parsed =>
        /\ Len(all_data)
               = Cardinality({i \in 1..Len(file_data) : IsWellFormed(file_data[i])})
        /\ \A e \in Range(all_data) :
               Unparseable(e.raw_timestamp) =>
                   e.timestamp = e.raw_timestamp /\ ~IsDatetime(e.datetime)

\* C2: an event whose header timestamp did not parse adds zero minutes in both
\* of its adjacent pairings of the duration loop.
C2_UnparseableAddsZero ==
    (Parsed /\ Computed) =>
        \A i \in 1..(Len(df) - 1) :
            (Unparseable(df[i].raw_timestamp) \/ Unparseable(df[i + 1].raw_timestamp))
                => GapSeconds(df, i) = 0

\* C3, as claimed: every permutation of the files supplied gives the same
\* events and the same tag histories, also when files share a filename.
C3_AnyOrderSameResult ==
    Parsed =>
        \A p \in Injections(Len(uploaded_files)) :
            /\ ParseUploadedFiles(regex_H, Reorder(uploaded_files, p)).all_data = all_data
            /\ DictEq(ParseUploadedFiles(regex_H, Reorder(uploaded_files, p)).tag_histories,
                      tag_histories)

\* C3, amended: the files are processed in ascending order of filename, and
\* when the filenames are pairwise distinct every permutation of the files
\* supplied gives the same events and the same tag histories.
C3_DistinctNamesAnyOrderSameResult ==
    Parsed =>
        /\ \A i, j \in 1..Len(file_data) :
               i < j => ~StrLess(file_data[j].name, file_data[i].name)
        /\ DistinctNames(uploaded_files) =>
               \A p \in Injections(Len(uploaded_files)) :
                   /\ ParseUploadedFiles(regex_H, Reorder(uploaded_files, p)).all_data = all_data
                   /\ DictEq(ParseUploadedFiles(regex_H, Reorder(uploaded_files, p)).tag_histories,
                             tag_histories)

\* Two files with distinct names, supplied in descending order of name, both
\* of which produced an event.
C3_Witness ==
    /\ pc = "returned"
    /\ Len(uploaded_files) = 2
    /\ StrLess(uploaded_files[2].name, uploaded_files[1].name)
    /\ Len(all_data) = 2
    /\ all_data[1].tag_ids # <<>>

\* C4: for every event e and every tag t of e.tag_ids, tag_histories[t] exists
\* and holds an entry with e's timestamp, sequence and filename.
C4_TagFidelity ==
    \A e \in Range(all_data) :
        \A t \in Range(e.tag_ids) :
            /\ HasKey(tag_histories, t)
            /\ \E h \in Range(Get(tag_histories, t)) : Matches(h, e)

\* Two events of different uploaded files and states that carry the same tag.
C4_Witness ==
    /\ pc = "returned"
    /\ uploaded_files # <<>>
    /\ \E i, j \in 1..Len(all_data) :
           /\ i < j
           /\ all_data[i].filename # all_data[j].filename
           /\ all_data[i].sequence # all_data[j].sequence
           /\ Range(all_data[i].tag_ids) \cap Range(all_data[j].tag_ids) # {}

\* C5, as claimed: the durations are summed over the adjacent pairs of the
\* list as given (filename order), so its final event contributes zero.
C5_PairsOfListAsGiven ==
    Computed =>
        \A k \in 1..Len(StateCodes) :
            Get(stats, StateCodes[k]).total_duration
                = PairMinutes(all_data, StateCodes[k], 1, FZero)

\* C6, as claimed: the five percentages of events sum to 100 for every
\* non-empty list, also when an event's sequence code is none of 00..04.
C6_PercentagesSumTo100 ==
    Computed => PercentageSum = FromInt(100)

\* C6, amended: the five counts sum to the number of events whose code is one
\* of 00..04; the percentages sum, up to the rounding of the doubles, to 100
\* times that number over the number of events, which is 100 when every
\* event's code is one of the five and less otherwise.
C6_PercentagesCoverKnownCodes ==
    Computed =>
        /\ SumCounts(stats, 1) = Cardinality(KnownEvents(all_data))
        /\ WithinRounding(PercentageSum,
                          FDiv(FromInt(100 * Cardinality(KnownEvents(all_data))),
                               FromInt(Len(all_data))))
        /\ WithinRounding(PercentageSum, FromInt(100)) <=> AllKnown(all_data)
        /\ ~AllKnown(all_data) => FLess(PercentageSum, FromInt(100))

\* An event of state 05 next to events of known states.
C6_Witness ==
    /\ Computed
    /\ KnownEvents(all_data) # {}
    /\ ~AllKnown(all_data)
    /\ df[Len(df)].sequence \in Range(StateCodes)

\* C7, as claimed: the iteration over a file whose first line has fewer than
\* 4 fields adds no event and no history entry, and surfaces a warning naming
\* the file.
C7_ShortHeaderWarns ==
    [][(pc = "loop" /\ idx <= Len(file_data) /\ HasShortHeader(file_data[idx]))
          => /\ all_data' = all_data
             /\ tag_histories' = tag_histories
             /\ Len(warnings') = Len(warnings) + 1
             /\ warnings'[Len(warnings')].filename = file_data[idx].name]_vars

\* C8: whatever the order of the timestamps in the list, every state's
\* total_duration is greater than or equal to zero.
C8_TotalsNeverNegative ==
    Computed =>
        \A k \in 1..Len(StateCodes) :
            ~FLess(Get(stats, StateCodes[k]).total_duration, FZero)

\* A list with an inverted pair of timestamps, and a state with a duration.
C8_Witness ==
    /\ Computed
    /\ \E i \in 1..(Len(all_data) - 1) : GapSeconds(all_data, i) < 0
    /\ \E k \in 1..Len(StateCodes) :
           FLess(FZero, Get(stats, StateCodes[k]).total_duration)

\* C9: every key of tag_histories maps to a non-empty list, and every entry of
\* the list corresponds to a returned event whose tag_ids holds the tag.
C9_NoHistoryWithoutEvent ==
    Parsed =>
        \A item \in Range(tag_histories) :
            /\ item.value # <<>>
            /\ \A h \in Range(item.value) :
                   \E e \in Range(all_data) :
                       item.key \in Range(e.tag_ids) /\ Matches(h, e)

\* C10, as claimed: when every event's code is one of 00..04, the sum of the
\* five total_duration values (total_time, the denominator of time_percentage)
\* is the span between the earliest and the latest datetime of the list, in
\* minutes.
C10_TotalTimeIsSpan ==
    (Computed /\ AllKnown(all_data)) => total_time = Minutes(SpanSeconds(all_data))

\* C10, amended: that sum and the span in minutes are equal up to the
\* rounding of the doubles: they differ by less than 2^-50 of the span.
C10_TotalTimeIsSpanWithinRounding ==
    (Computed /\ AllKnown(all_data)) =>
        /\ total_time \in BuiltinSum(TotalDurations(stats))
        /\ WithinRounding(total_time, Minutes(SpanSeconds(all_data)))

\* Known codes only, not in chronological order, over a span of time that the
\* sum of the rounded durations misses in the last bit.
C10_Witness ==
    /\ Computed
    /\ AllKnown(all_data)
    /\ Len(all_data) >= 3
    /\ df # all_data
    /\ SpanSeconds(all_data) > 0
    /\ total_time # Minutes(SpanSeconds(all_data))

====
